---------------------------- MODULE Spec2Model ----------------------------
(***************************************************************************)
(* A model of the token annotation engine of scripts/utils:                *)
(*   annotated_tokens.py  MutableTokens, AnnotatedTokens, TokenAnnotation, *)
(*                        merge_strict, merge_expand, span_intersect       *)
(*   align.py             align, _gen_diffs                                *)
(*                                                                         *)
(* A text is a sequence of characters (one-character strings), a token is  *)
(* a text, a token list is a sequence of tokens.  " ".join and split(" ")  *)
(* are computed character by character.  Positions are 0-based as in the   *)
(* source; TLA+ sequences are 1-based, so tokens[k + 1] is _tokens[k].     *)
(***************************************************************************)
EXTENDS Integers, Sequences, FiniteSets, TLC

VARIABLES
    tokens,     \* AnnotatedTokens._tokens
    anns,       \* AnnotatedTokens._annotations, in list order
    err,        \* how the last call ended: "none" or the exception raised
    op,         \* the last call: its name and arguments
    mode,       \* what the caller does: "edit", "corrected", "iter",
                \* "iterdone", "aborted", "applyall", "one", "both", "read",
                \* "combined" or "filtered"
    it,         \* the frame of the iter_annotations generator
    visits,     \* per annotation of anns: how often the generator yielded it
    gone,       \* yield counts of the annotations removed during a pass
    goal,       \* the text an apply-all pass is compared with
    other,      \* a second AnnotatedTokens: its _tokens and _annotations
    staged      \* MutableTokens._edits of an editor over tokens, in order

vars == <<tokens, anns, err, op, mode, it, visits, gone, goal, other, staged>>

---------------------------------------------------------------------------
(* Bounds of the model.                                                    *)

MaxTokens == 2      \* longest initial token list
MaxAnns == 2        \* most annotations an edited buffer holds
MaxBuilt == 3       \* most annotations a buffer holds before a pass over it
MaxLevel == 1       \* levels 0..MaxLevel are passed to apply_correction
MaxAlign == 3       \* longest source and target sequence given to align
MaxEdits == 2       \* most edits staged in a MutableTokens

MaxPos == MaxTokens             \* positions passed to annotate: 0..MaxPos
MaxGrow == MaxTokens + 1        \* no correction makes the token list longer

---------------------------------------------------------------------------
(* Texts.                                                                  *)

SP == " "
EmptyStr == << >>
NO_SUGGESTIONS ==
    <<"N", "O", "_", "S", "U", "G", "G", "E", "S", "T", "I", "O", "N", "S">>

Min(a, b) == IF a < b THEN a ELSE b
Max(a, b) == IF a > b THEN a ELSE b

\* " ".join(list)
RECURSIVE Join(_)
Join(list) ==
    IF list = << >> THEN EmptyStr
    ELSE IF Len(list) = 1 THEN list[1]
    ELSE list[1] \o <<SP>> \o Join(Tail(list))

\* text.split(" "): always at least one piece; "" splits into [""]
RECURSIVE Split(_)
Split(text) ==
    IF \E k \in 1..Len(text) : text[k] = SP
    THEN LET k == CHOOSE j \in 1..Len(text) :
                      /\ text[j] = SP
                      /\ \A h \in 1..(j - 1) : text[h] # SP
         IN  <<SubSeq(text, 1, k - 1)>> \o Split(SubSeq(text, k + 1, Len(text)))
    ELSE <<text>>

\* sub in text
Contains(text, sub) ==
    \E k \in 1..(Len(text) - Len(sub) + 1) :
        SubSeq(text, k, k + Len(sub) - 1) = sub

\* list[i:j] with Python's treatment of negative and out-of-range indices
PyIndex(n, k) == IF k < 0 THEN Max(k + n, 0) ELSE Min(k, n)
PySlice(list, i, j) ==
    SubSeq(list, PyIndex(Len(list), i) + 1, PyIndex(Len(list), j))

---------------------------------------------------------------------------
(* MutableTokens.                                                          *)

\* the sort key without the end of the span
EditBeforeByStart(x, y) == x.start < y.start

\* sorted(self._edits, key=lambda x: (x[0], x[1])): a stable sort
EditBefore(x, y) ==
    \/ x.start < y.start
    \/ x.start = y.start /\ x.end < y.end

RECURSIVE InsertEdit(_, _)
InsertEdit(sorted, x) ==
    IF sorted = << >> THEN <<x>>
    ELSE IF EditBefore(x, sorted[Len(sorted)])
         THEN InsertEdit(SubSeq(sorted, 1, Len(sorted) - 1), x)
                  \o <<sorted[Len(sorted)]>>
         ELSE sorted \o <<x>>

RECURSIVE SortEdits(_)
SortEdits(edits) ==
    IF edits = << >> THEN << >>
    ELSE InsertEdit(SortEdits(SubSeq(edits, 1, Len(edits) - 1)),
                    edits[Len(edits)])

\* the loop of get_edited_tokens over the sorted edits, from position i
RECURSIVE EditLoop(_, _, _, _, _)
EditLoop(t, edits, i, result, highlight) ==
    IF edits = << >> THEN result \o PySlice(t, i, Len(t))
    ELSE LET e == edits[1]
             copied == result \o PySlice(t, i, e.start)
             put == IF ~highlight /\ Contains(e.val, NO_SUGGESTIONS)
                    THEN PySlice(t, e.start, e.end)
                    ELSE IF e.val # EmptyStr THEN Split(e.val)
                    ELSE << >>
         IN  EditLoop(t, Tail(edits), e.end, copied \o put, highlight)

get_edited_tokens(t, edits, highlight) ==
    EditLoop(t, SortEdits(edits), 0, << >>, highlight)

---------------------------------------------------------------------------
(* TokenAnnotation, span_intersect and the helpers of the policies.        *)

TokenAnnotation(start, end, source_text, suggestions, meta) ==
    [start |-> start, end |-> end, source_text |-> source_text,
     suggestions |-> suggestions, meta |-> meta]

\* a dict is a function from its keys; dict() is the function of no key
EmptyMeta == [k \in {} |-> 0]
\* the existing metadata kept on a key both dicts have
MergeMetaKeepingOld(old, new) ==
    [k \in (DOMAIN old) \cup (DOMAIN new) |->
        IF k \in DOMAIN old THEN old[k] ELSE new[k]]

\* {**old, **new}
MergeMeta(old, new) ==
    [k \in (DOMAIN old) \cup (DOMAIN new) |->
        IF k \in DOMAIN new THEN new[k] ELSE old[k]]

\* the result of a call on the buffer: its fields afterwards, and the
\* exception it raised ("none" when it returned)
Res(t, a, e) == [tokens |-> t, anns |-> a, err |-> e]

strictly_inside(a, b, x, y) == x < a /\ a <= b /\ b < y

\* span_intersect taking spans that only touch as intersecting
SpanHitsTouching(b, e, begin, end) ==
    \/ Min(end, e) - Max(begin, b) >= 0
    \/ strictly_inside(b, e, begin, end)
    \/ strictly_inside(begin, end, b, e)

\* whether one span (b, e) of the list makes span_intersect return its index
SpanHits(b, e, begin, end) ==
    \/ Max(0, Min(end, e) - Max(begin, b)) # 0
    \/ strictly_inside(b, e, begin, end)
    \/ strictly_inside(begin, end, b, e)

\* index (0-based) of the first span that intersects [begin, end), or -1
span_intersect(spans, begin, end) ==
    IF \E k \in 1..Len(spans) : SpanHits(spans[k][1], spans[k][2], begin, end)
    THEN (CHOOSE k \in 1..Len(spans) :
              /\ SpanHits(spans[k][1], spans[k][2], begin, end)
              /\ \A h \in 1..(k - 1) :
                     ~SpanHits(spans[h][1], spans[h][2], begin, end)) - 1
    ELSE -1

\* _get_overlaps without its branch for two insertions at one point
OverlapsSpanNoPoint(ann, start, end) ==
    span_intersect(<<(<<ann.start, ann.end>>)>>, start, end) # -1

OverlapsSpan(ann, start, end) ==
    \/ span_intersect(<<(<<ann.start, ann.end>>)>>, start, end) # -1
    \/ start = end /\ ann.start = ann.end /\ start = ann.start

_get_overlaps(as, start, end) ==
    SelectSeq(as, LAMBDA ann : OverlapsSpan(ann, start, end))

\* position (1-based) of the first element equal to x, 0 when there is none;
\* TokenAnnotation.__eq__ compares the five fields
IndexOf(list, x) ==
    IF \E k \in 1..Len(list) : list[k] = x
    THEN CHOOSE k \in 1..Len(list) :
             list[k] = x /\ \A h \in 1..(k - 1) : list[h] # x
    ELSE 0

RemoveAt(list, k) == SubSeq(list, 1, k - 1) \o SubSeq(list, k + 1, Len(list))

\* AnnotatedTokens.remove
remove(t, as, annotation) ==
    IF IndexOf(as, annotation) = 0
    THEN Res(t, as, "ValueError")
    ELSE Res(t, RemoveAt(as, IndexOf(as, annotation)), "none")

\* every element kept
_unique_list_keeping_all(array) == array

RECURSIVE _unique_list(_)
_unique_list(array) ==
    IF array = << >> THEN << >>
    ELSE LET res == _unique_list(SubSeq(array, 1, Len(array) - 1))
             x == array[Len(array)]
         IN  IF \E k \in 1..Len(res) : res[k] = x THEN res ELSE res \o <<x>>

\* the suggestions annotate builds from correct_value: a str, None or an
\* iterable
Suggestions(correct_value) ==
    IF correct_value.kind = "str" THEN <<correct_value.val>>
    ELSE IF correct_value.kind = "none" THEN << >>
    ELSE correct_value.val

StrValue(text) == [kind |-> "str", val |-> text]
NoneValue == [kind |-> "none", val |-> << >>]
ListValue(list) == [kind |-> "list", val |-> list]

\* only the first overlapping annotation removed
RemoveFirstOnly(t, as, overlapping) ==
    IF overlapping = << >> THEN Res(t, as, "none")
    ELSE remove(t, as, overlapping[1])

\* "for ann in overlapping: self.remove(ann)" of the override policy
RECURSIVE RemoveEach(_, _, _)
RemoveEach(t, as, overlapping) ==
    IF overlapping = << >> THEN Res(t, as, "none")
    ELSE LET r == remove(t, as, overlapping[1])
         IN  IF r.err # "none" THEN r
             ELSE RemoveEach(t, r.anns, Tail(overlapping))

Policies == {"error", "override", "save_old", "merge_strict", "merge_expand"}

---------------------------------------------------------------------------
(* AnnotatedTokens.annotate with merge_strict and merge_expand.            *)

RECURSIVE annotate(_, _, _, _, _, _, _)

\* merge_strict removing the existing annotation before it compares spans
merge_strict_removing(t, as, overlapping, new_ann) ==
    IF Len(overlapping) > 1 THEN Res(t, as, "OverlapError")
    ELSE LET existing == overlapping[1]
             r == remove(t, as, existing)
         IN  IF existing.start # new_ann.start \/ existing.end # new_ann.end
             THEN Res(t, r.anns, "OverlapError")
             ELSE annotate(t, r.anns, new_ann.start, new_ann.end,
                           ListValue(_unique_list(existing.suggestions
                                                      \o new_ann.suggestions)),
                           MergeMeta(existing.meta, new_ann.meta), "error")

merge_strict(t, as, overlapping, new_ann) ==
    IF Len(overlapping) > 1 THEN Res(t, as, "OverlapError")
    ELSE LET existing == overlapping[1] IN
         IF existing.start # new_ann.start \/ existing.end # new_ann.end
         THEN Res(t, as, "OverlapError")
         ELSE LET suggestions ==
                      _unique_list(existing.suggestions \o new_ann.suggestions)
                  meta == MergeMeta(existing.meta, new_ann.meta)
                  r == remove(t, as, existing)
              IN  IF r.err # "none" THEN r
                  ELSE annotate(t, r.anns, new_ann.start, new_ann.end,
                                ListValue(suggestions), meta, "error")

\* text._text is read before anything is changed, and AnnotatedTokens has no
\* attribute _text
merge_expand(t, as, overlapping, new_ann) ==
    IF Len(overlapping) > 1 THEN Res(t, as, "OverlapError")
    ELSE Res(t, as, "AttributeError")

\* annotate appending the new annotation under save_old as well
annotate_keeping_new(t, as, start, end, correct_value, meta, on_overlap) ==
    IF start > end THEN Res(t, as, "ValueError")
    ELSE LET bad == Join(PySlice(t, start, end))
             new_ann == TokenAnnotation(start, end, bad,
                                        Suggestions(correct_value), meta)
             overlapping == _get_overlaps(as, start, end)
         IN  IF overlapping # << >> /\ on_overlap # "save_old"
             THEN CASE on_overlap = "override" ->
                         LET r == RemoveEach(t, as, overlapping)
                         IN  IF r.err # "none" THEN r
                             ELSE Res(t, r.anns \o <<new_ann>>, "none")
                    [] on_overlap = "error" -> Res(t, as, "OverlapError")
                    [] on_overlap = "merge_strict" ->
                         merge_strict(t, as, overlapping, new_ann)
                    [] on_overlap = "merge_expand" ->
                         merge_expand(t, as, overlapping, new_ann)
                    [] OTHER -> Res(t, as, "ValueError")
             ELSE Res(t, as \o <<new_ann>>, "none")

annotate(t, as, start, end, correct_value, meta, on_overlap) ==
    IF start > end THEN Res(t, as, "ValueError")
    ELSE LET bad == Join(PySlice(t, start, end))
             new_ann == TokenAnnotation(start, end, bad,
                                        Suggestions(correct_value), meta)
             overlapping == _get_overlaps(as, start, end)
         IN  IF overlapping # << >>
             THEN CASE on_overlap = "save_old" -> Res(t, as, "none")
                    [] on_overlap = "override" ->
                         LET r == RemoveEach(t, as, overlapping)
                         IN  IF r.err # "none" THEN r
                             ELSE Res(t, r.anns \o <<new_ann>>, "none")
                    [] on_overlap = "error" -> Res(t, as, "OverlapError")
                    [] on_overlap = "merge_strict" ->
                         merge_strict(t, as, overlapping, new_ann)
                    [] on_overlap = "merge_expand" ->
                         merge_expand(t, as, overlapping, new_ann)
                    [] OTHER -> Res(t, as, "ValueError")
             ELSE Res(t, as \o <<new_ann>>, "none")

---------------------------------------------------------------------------
(* Corrections.                                                            *)

Edit(start, end, val) == [start |-> start, end |-> end, val |-> val]

\* the token count apply_correction takes a text to have
TokenCount(text) == IF text # EmptyStr THEN Len(Split(text)) ELSE 0

\* the adjustment moving only the annotations that start past the corrected
\* one
RemapPast(as, from, delta) ==
    [k \in 1..Len(as) |->
        IF as[k].start > from
        THEN [as[k] EXCEPT !.start = @ + delta, !.end = @ + delta]
        ELSE as[k]]

\* "Adjust other annotations"
Remap(as, from, delta) ==
    [k \in 1..Len(as) |->
        IF as[k].start >= from
        THEN [as[k] EXCEPT !.start = @ + delta, !.end = @ + delta]
        ELSE as[k]]

apply_correction(t, as, annotation, level) ==
    IF IndexOf(as, annotation) = 0 THEN Res(t, as, "ValueError")
    ELSE LET rest == RemoveAt(as, IndexOf(as, annotation)) IN
         IF annotation.suggestions # << >>
               /\ level >= Len(annotation.suggestions)
         THEN Res(t, rest, "IndexError")
         ELSE LET repl == IF annotation.suggestions # << >>
                          THEN annotation.suggestions[level + 1]
                          ELSE annotation.source_text
                  edited == get_edited_tokens(
                                t, <<Edit(annotation.start, annotation.end, repl)>>,
                                FALSE)
                  delta == TokenCount(repl) - TokenCount(annotation.source_text)
              IN  Res(edited, Remap(rest, annotation.start, delta), "none")

\* the edits get_corrected_tokens stages: one per annotation that has a
\* suggestion at the level
RECURSIVE CorrectionEdits(_, _)
CorrectionEdits(as, level) ==
    IF as = << >> THEN << >>
    ELSE (IF level < Len(as[1].suggestions)
          THEN <<Edit(as[1].start, as[1].end, as[1].suggestions[level + 1])>>
          ELSE << >>) \o CorrectionEdits(Tail(as), level)

get_corrected_tokens(t, as, level) ==
    get_edited_tokens(t, CorrectionEdits(as, level), FALSE)

get_corrected_text(t, as, level) == Join(get_corrected_tokens(t, as, level))

get_original_text(t) == Join(t)

---------------------------------------------------------------------------
(* AnnotatedTokens.combine: other is a buffer value.                       *)

\* self's annotations replaced by the ones of other that overlap them
CombinePolicyOverriding(discard_overlap) ==
    IF discard_overlap THEN "override" ELSE "error"

\* on_overlap = "save_old" if discard_overlap else "error"
CombinePolicy(discard_overlap) ==
    IF discard_overlap THEN "save_old" ELSE "error"

\* "for ann in other.get_annotations(): self.annotate(...)": the first
\* exception leaves the loop
RECURSIVE CombineLoop(_, _, _, _)
CombineLoop(t, as, theirs, on_overlap) ==
    IF theirs = << >> THEN Res(t, as, "none")
    ELSE LET ann == theirs[1]
             r == annotate(t, as, ann.start, ann.end,
                           ListValue(ann.suggestions), ann.meta, on_overlap)
         IN  IF r.err # "none" THEN r
             ELSE CombineLoop(t, r.anns, Tail(theirs), on_overlap)

combine(t, as, o, discard_overlap) ==
    IF get_original_text(t) # get_original_text(o.tokens)
    THEN Res(t, as, "ValueError")
    ELSE CombineLoop(t, as, o.anns, CombinePolicy(discard_overlap))

---------------------------------------------------------------------------
(* difflib.SequenceMatcher(None, a, b).get_opcodes() as align.py uses it:  *)
(* no junk, and sequences far shorter than the autojunk threshold.         *)

MatchAt(a, b, i, j, k) == \A d \in 1..k : a[i + d] = b[j + d]

\* find_longest_match: the longest block a[i:i+k] == b[j:j+k] within
\* a[alo:ahi] and b[blo:bhi]; of those the one starting earliest in a, and of
\* those the one starting earliest in b; <<alo, blo, 0>> when nothing matches
find_longest_match(a, b, alo, ahi, blo, bhi) ==
    LET blocks == {m \in (alo..ahi) \X (blo..bhi) \X (1..(ahi - alo)) :
                      /\ m[1] + m[3] <= ahi
                      /\ m[2] + m[3] <= bhi
                      /\ MatchAt(a, b, m[1], m[2], m[3])}
        Better(m, n) ==
            \/ m[3] > n[3]
            \/ m[3] = n[3] /\ m[1] < n[1]
            \/ m[3] = n[3] /\ m[1] = n[1] /\ m[2] < n[2]
    IN  IF blocks = {} THEN <<alo, blo, 0>>
        ELSE CHOOSE m \in blocks : \A n \in blocks \ {m} : Better(m, n)

\* the blocks get_matching_blocks finds in a[alo:ahi], b[blo:bhi], sorted
RECURSIVE matching_blocks(_, _, _, _, _, _)
matching_blocks(a, b, alo, ahi, blo, bhi) ==
    LET m == find_longest_match(a, b, alo, ahi, blo, bhi)
        i == m[1]
        j == m[2]
        k == m[3]
    IN  IF k = 0 THEN << >>
        ELSE (IF alo < i /\ blo < j
              THEN matching_blocks(a, b, alo, i, blo, j) ELSE << >>)
             \o <<m>>
             \o (IF i + k < ahi /\ j + k < bhi
                 THEN matching_blocks(a, b, i + k, ahi, j + k, bhi)
                 ELSE << >>)

\* adjacent blocks are collapsed into one
RECURSIVE collapse(_)
collapse(blocks) ==
    IF Len(blocks) < 2 THEN blocks
    ELSE LET m == blocks[1]
             n == blocks[2]
         IN  IF m[1] + m[3] = n[1] /\ m[2] + m[3] = n[2]
             THEN collapse(<<(<<m[1], m[2], m[3] + n[3]>>)>>
                               \o SubSeq(blocks, 3, Len(blocks)))
             ELSE <<m>> \o collapse(Tail(blocks))

get_matching_blocks(a, b) ==
    collapse(matching_blocks(a, b, 0, Len(a), 0, Len(b)))
        \o <<(<<Len(a), Len(b), 0>>)>>

\* the loop of get_opcodes over the matching blocks, from (i, j)
RECURSIVE opcodes(_, _, _)
opcodes(blocks, i, j) ==
    IF blocks = << >> THEN << >>
    ELSE LET ai == blocks[1][1]
             bj == blocks[1][2]
             size == blocks[1][3]
             tag == IF i < ai /\ j < bj THEN "replace"
                    ELSE IF i < ai THEN "delete"
                    ELSE IF j < bj THEN "insert"
                    ELSE ""
         IN  (IF tag # "" THEN <<(<<tag, i, ai, j, bj>>)>> ELSE << >>)
             \o (IF size # 0
                 THEN <<(<<"equal", ai, ai + size, bj, bj + size>>)>>
                 ELSE << >>)
             \o opcodes(Tail(blocks), ai + size, bj + size)

get_opcodes(a, b) == opcodes(get_matching_blocks(a, b), 0, 0)

---------------------------------------------------------------------------
(* align.py                                                                *)

_tag(diff) == diff[1]

\* _gen_diffs without its "continue" for equal runs
DiffOfEvery(diff, translation_tokens) ==
    <<(<<diff[2], diff[3],
         Join(PySlice(translation_tokens, diff[4], diff[5]))>>)>>

\* what _gen_diffs yields for one opcode: nothing for "equal"
DiffOf(diff, translation_tokens) ==
    IF _tag(diff) = "equal" THEN << >>
    ELSE <<(<<diff[2], diff[3],
              Join(PySlice(translation_tokens, diff[4], diff[5]))>>)>>

RECURSIVE DiffsOf(_, _)
DiffsOf(diffs, translation_tokens) ==
    IF diffs = << >> THEN << >>
    ELSE DiffOf(diffs[1], translation_tokens)
             \o DiffsOf(Tail(diffs), translation_tokens)

_gen_diffs(original, translation) ==
    DiffsOf(get_opcodes(original, translation), translation)

\* the loop of align left after its first diff
AnnotateFirstDiff(r, diffs) ==
    IF diffs = << >> \/ r.err # "none" THEN r
    ELSE annotate(r.tokens, r.anns, diffs[1][1], diffs[1][2],
                  StrValue(diffs[1][3]), EmptyMeta, "error")

\* "for diff in _gen_diffs(source, target): ann_tokens.annotate(l, r, repl)";
\* an exception of annotate ends the loop
RECURSIVE AnnotateDiffs(_, _)
AnnotateDiffs(r, diffs) ==
    IF diffs = << >> \/ r.err # "none" THEN r
    ELSE AnnotateDiffs(
             annotate(r.tokens, r.anns, diffs[1][1], diffs[1][2],
                      StrValue(diffs[1][3]), EmptyMeta, "error"),
             Tail(diffs))

align(source, target) ==
    AnnotateDiffs(Res(source, << >>, "none"), _gen_diffs(source, target))

---------------------------------------------------------------------------
(* iter_annotations: the generator's frame is (i, n_anns); it is resumed   *)
(* after the caller's loop body has run.                                   *)

\* the index stepped without the change in the count
AdvanceIndexByOne(i, n_anns, len) == i + 1

\* "delta = len(self._annotations) - n_anns; i += delta + 1"
AdvanceIndex(i, n_anns, len) == i + (len - n_anns) + 1

\* self._annotations[i] for an index that may be negative
PyItem(list, i) == IF i < 0 THEN list[Len(list) + i + 1] ELSE list[i + 1]

\* the generator from "while i < n_anns" on: it yields as[i] or returns
IterAt(as, i, n_anns) ==
    IF i < n_anns
    THEN [done |-> FALSE, i |-> i, n_anns |-> n_anns, cur |-> PyItem(as, i)]
    ELSE [done |-> TRUE, i |-> i, n_anns |-> n_anns, cur |-> << >>]

\* the generator resumed as a loop over the list itself would be
IterResumeNext(frame, as) == IterAt(as, frame.i + 1, Len(as))

IterBegin(as) == IterAt(as, 0, Len(as))
IterResume(frame, as) ==
    IterAt(as, AdvanceIndex(frame.i, frame.n_anns, Len(as)), Len(as))

---------------------------------------------------------------------------
(* The inputs the callers of the model pass.                               *)

A == <<"a">>
B == <<"b">>

Tokens == {A, B}

RECURSIVE ListsUpTo(_, _)
ListsUpTo(S, n) ==
    IF n = 0 THEN {<< >>}
    ELSE LET shorter == ListsUpTo(S, n - 1)
         IN  shorter \cup {Append(l, x) : l \in shorter, x \in S}

\* a and b are opaque to the engine: the initial lists are taken up to
\* exchanging them
InitialTokens ==
    {l \in ListsUpTo(Tokens, MaxTokens) : l = << >> \/ l[1] = A}

Positions == 0..MaxPos
Levels == 0..MaxLevel
Values == {NoneValue, StrValue(EmptyStr)}
PassValues == {NoneValue, StrValue(EmptyStr), StrValue(A)}
AlignTokens == {A, B, NO_SUGGESTIONS}
Metas == {EmptyMeta}

\* the buffers the model follows: a call that would take the token list, the
\* annotation count or a position past these is not made
Followed(r, most) ==
    /\ Len(r.tokens) <= MaxGrow
    /\ Len(r.anns) <= most
    /\ \A k \in 1..Len(r.anns) :
           r.anns[k].start >= -MaxPos /\ r.anns[k].end <= MaxPos + 1

NoIter == [done |-> TRUE, i |-> 0, n_anns |-> 0, cur |-> << >>]

\* a buffer as a value: its token list and its annotations
Buffer(t, as) == [tokens |-> t, anns |-> as]

\* no second buffer has been made
NoOther == Buffer(<< >>, << >>)

---------------------------------------------------------------------------
(* The buffer under a caller that edits it.                                *)

Init ==
    /\ tokens \in InitialTokens
    /\ anns = << >>
    /\ err = "none"
    /\ op = [name |-> "init"]
    /\ mode = "edit"
    /\ it = NoIter
    /\ visits = << >>
    /\ gone = << >>
    /\ goal = EmptyStr
    /\ other = NoOther
    /\ staged = << >>

Returns(r) ==
    /\ tokens' = r.tokens
    /\ anns' = r.anns
    /\ err' = r.err

Annotate(start, end, correct_value, meta, on_overlap) ==
    /\ mode = "edit"
    /\ LET r == annotate(tokens, anns, start, end, correct_value, meta,
                       on_overlap)
       IN  Followed(r, MaxAnns) /\ Returns(r)
    /\ op' = [name |-> "annotate", start |-> start, end |-> end,
              value |-> correct_value, meta |-> meta, policy |-> on_overlap]
    /\ UNCHANGED <<mode, it, visits, gone, goal, other, staged>>

Remove(k) ==
    /\ mode = "edit"
    /\ Returns(remove(tokens, anns, anns[k]))
    /\ op' = [name |-> "remove"]
    /\ UNCHANGED <<mode, it, visits, gone, goal, other, staged>>

ApplyCorrection(k, level) ==
    /\ mode = "edit"
    /\ LET r == apply_correction(tokens, anns, anns[k], level)
       IN  Followed(r, MaxAnns) /\ Returns(r)
    /\ op' = [name |-> "apply_correction", ann |-> anns[k], level |-> level]
    /\ UNCHANGED <<mode, it, visits, gone, goal, other, staged>>

\* apply_correction called again with the annotation the last call consumed
ApplyAgain ==
    /\ mode = "edit"
    /\ op.name = "apply_correction"
    /\ err = "none"
    /\ LET r == apply_correction(tokens, anns, op.ann, op.level)
       IN  Followed(r, MaxAnns) /\ Returns(r)
    /\ op' = [name |-> "apply_again", ann |-> op.ann, level |-> op.level]
    /\ UNCHANGED <<mode, it, visits, gone, goal, other, staged>>

Next ==
    \/ \E start \in Positions, end \in Positions, v \in Values, m \in Metas,
          p \in Policies : Annotate(start, end, v, m, p)
    \/ \E k \in 1..Len(anns) : Remove(k)
    \/ \E k \in 1..Len(anns), level \in Levels : ApplyCorrection(k, level)
    \/ ApplyAgain

Spec == Init /\ [][Next]_vars

---------------------------------------------------------------------------
(* A buffer is built, then one pass is made over its annotations: a loop   *)
(* over iter_annotations, or apply_correction on every annotation.         *)

\* the buffer is built by annotate calls with spans of the token list
Build(start, end, correct_value) ==
    /\ mode = "edit"
    /\ start <= end
    /\ end <= Len(tokens)
    /\ LET r == annotate(tokens, anns, start, end, correct_value, EmptyMeta,
                       "error")
       IN  Followed(r, MaxBuilt) /\ Returns(r)
    /\ op' = [name |-> "annotate", policy |-> "error"]
    /\ UNCHANGED <<mode, it, visits, gone, goal, other, staged>>

\* the yield counts once the generator stands at frame f
Mark(counts, f) ==
    IF f.done THEN counts
    ELSE [counts EXCEPT ![IF f.i < 0 THEN Len(counts) + f.i + 1
                          ELSE f.i + 1] = @ + 1]

Stands(f, counts) ==
    /\ it' = f
    /\ visits' = Mark(counts, f)
    /\ mode' = IF f.done THEN "iterdone" ELSE "iter"

\* corrections applied to the built buffer before the pass over it
Correct(k) ==
    /\ mode \in {"edit", "corrected"}
    /\ Returns(apply_correction(tokens, anns, anns[k], 0))
    /\ mode' = "corrected"
    /\ op' = [name |-> "apply_correction", ann |-> anns[k], level |-> 0]
    /\ UNCHANGED <<it, visits, gone, goal, other, staged>>

\* "for ann in tokens.iter_annotations():" reaches its first annotation
IterStart ==
    /\ mode \in {"edit", "corrected"}
    /\ Stands(IterBegin(anns), [k \in 1..Len(anns) |-> 0])
    /\ gone' = << >>
    /\ err' = "none"
    /\ op' = [name |-> "iter_annotations"]
    /\ UNCHANGED <<tokens, anns, goal, other, staged>>

\* the loop body does nothing with the annotation
IterKeep ==
    /\ mode = "iter"
    /\ Stands(IterResume(it, anns), visits)
    /\ err' = "none"
    /\ op' = [name |-> "keep"]
    /\ UNCHANGED <<tokens, anns, gone, goal, other, staged>>

\* the loop body has called r on the yielded annotation: an exception leaves
\* the loop, otherwise the generator is resumed
BodyDone(r, name) ==
    /\ Returns(r)
    /\ op' = [name |-> name]
    /\ UNCHANGED <<goal, other, staged>>
    /\ IF r.err # "none"
       THEN mode' = "aborted" /\ UNCHANGED <<it, visits, gone>>
       ELSE /\ Stands(IterResume(it, r.anns),
                      RemoveAt(visits, IndexOf(anns, it.cur)))
            /\ gone' = Append(gone, visits[IndexOf(anns, it.cur)])

IterRemove ==
    /\ mode = "iter"
    /\ BodyDone(remove(tokens, anns, it.cur), "iter_remove")

IterApply ==
    /\ mode = "iter"
    /\ BodyDone(apply_correction(tokens, anns, it.cur, 0), "iter_apply")

NextIter ==
    \/ \E start \in Positions, end \in Positions, v \in PassValues :
          Build(start, end, v)
    \/ \E k \in 1..Len(anns) : Correct(k)
    \/ IterStart
    \/ IterKeep
    \/ IterRemove
    \/ IterApply

SpecIter == Init /\ [][NextIter]_vars

\* get_corrected_text(0) is taken before the corrections are applied
StartApplyAll ==
    /\ mode = "edit"
    /\ mode' = "applyall"
    /\ goal' = get_corrected_text(tokens, anns, 0)
    /\ err' = "none"
    /\ op' = [name |-> "get_corrected_text"]
    /\ UNCHANGED <<tokens, anns, it, visits, gone, other, staged>>

ApplyNext(k) ==
    /\ mode = "applyall"
    /\ Returns(apply_correction(tokens, anns, anns[k], 0))
    /\ op' = [name |-> "apply_correction", ann |-> anns[k], level |-> 0]
    /\ UNCHANGED <<mode, it, visits, gone, goal, other, staged>>

NextApplyAll ==
    \/ \E start \in Positions, end \in Positions, v \in PassValues :
          Build(start, end, v)
    \/ StartApplyAll
    \/ \E k \in 1..Len(anns) : ApplyNext(k)

SpecApplyAll == Init /\ [][NextApplyAll]_vars

---------------------------------------------------------------------------
(* annotate calls that carry suggestion lists and metadata, under the      *)
(* default policy, merge_strict and a policy name that OnOverlap lacks.    *)

\* the two annotations that are passed: their suggestions and metadata
MergeArgs ==
    {[value |-> ListValue(<<A>>), meta |-> [author |-> "x"]],
     [value |-> ListValue(<<B, A>>), meta |-> [author |-> "y", rule |-> "x"]]}
UnknownPolicy == "no_such_policy"
PolicyArgs == {"error", "merge_strict", UnknownPolicy}

NextPolicy ==
    \E start \in Positions, end \in Positions, a \in MergeArgs,
       p \in PolicyArgs : Annotate(start, end, a.value, a.meta, p)

SpecPolicy == Init /\ [][NextPolicy]_vars

---------------------------------------------------------------------------
(* Two annotations over one span, given to annotate under merge_strict in  *)
(* one order on this buffer and in the opposite order on a second buffer   *)
(* over the same tokens.                                                   *)

OrderValues ==
    {ListValue(<< >>), ListValue(<<A>>), ListValue(<<A, A>>),
     ListValue(<<A, B>>), ListValue(<<B, A>>)}

InitOrder ==
    /\ tokens \in InitialTokens
    /\ anns = << >>
    /\ err = "none"
    /\ \E start \in Positions, end \in Positions,
          first \in OrderValues, second \in OrderValues :
           /\ start <= end
           /\ op = [name |-> "pair", start |-> start, end |-> end,
                    first |-> first, second |-> second]
    /\ mode = "edit"
    /\ it = NoIter
    /\ visits = << >>
    /\ gone = << >>
    /\ goal = EmptyStr
    /\ other = Buffer(tokens, << >>)
    /\ staged = << >>

\* here is given the annotation with the suggestions mine, there the one with
\* the suggestions theirs
InsertBoth(mine, theirs) ==
    LET here == annotate(tokens, anns, op.start, op.end, mine, EmptyMeta,
                         "merge_strict")
        there == annotate(other.tokens, other.anns, op.start, op.end, theirs,
                          EmptyMeta, "merge_strict")
    IN  /\ tokens' = here.tokens
        /\ anns' = here.anns
        /\ other' = Buffer(there.tokens, there.anns)
        /\ err' = IF here.err # "none" THEN here.err ELSE there.err
        /\ UNCHANGED <<op, it, visits, gone, goal, staged>>

InsertFirst ==
    /\ mode = "edit"
    /\ mode' = "one"
    /\ InsertBoth(op.first, op.second)

InsertSecond ==
    /\ mode = "one"
    /\ err = "none"
    /\ mode' = "both"
    /\ InsertBoth(op.second, op.first)

NextOrder == InsertFirst \/ InsertSecond

SpecOrder == InitOrder /\ [][NextOrder]_vars

---------------------------------------------------------------------------
(* A buffer is built, then get_corrected_text(level) is read from it.      *)

ReadValues ==
    {ListValue(<< >>), ListValue(<<EmptyStr>>), ListValue(<<A, B>>),
     ListValue(<<NO_SUGGESTIONS>>)}

\* get_corrected_tokens works on a MutableTokens over self._tokens, which
\* keeps its edits apart and builds the result in a new list
CorrectedText(level) ==
    /\ mode = "edit"
    /\ mode' = "read"
    /\ goal' = get_corrected_text(tokens, anns, level)
    /\ err' = "none"
    /\ op' = [name |-> "get_corrected_text", level |-> level]
    /\ UNCHANGED <<tokens, anns, it, visits, gone, other, staged>>

NextRead ==
    \/ \E start \in Positions, end \in Positions, v \in ReadValues :
          Build(start, end, v)
    \/ \E level \in Levels : CorrectedText(level)

SpecRead == Init /\ [][NextRead]_vars

---------------------------------------------------------------------------
(* Two buffers are built, then the first combines with the second.         *)

\* AnnotatedTokens("") has the token list [""]; a list given to the
\* constructor may hold a token with a space
CombineTokens ==
    {<< >>, <<EmptyStr>>, <<A, B>>, <<Join(<<A, B>>)>>}

CombineValues == {NoneValue, StrValue(A)}

InitCombine ==
    /\ tokens \in CombineTokens
    /\ anns = << >>
    /\ err = "none"
    /\ op = [name |-> "init"]
    /\ mode = "edit"
    /\ it = NoIter
    /\ visits = << >>
    /\ gone = << >>
    /\ goal = EmptyStr
    /\ \E t \in CombineTokens : other = Buffer(t, << >>)
    /\ staged = << >>

\* self.annotate with a span of self's token list
BuildHere(start, end, correct_value) ==
    /\ mode = "edit"
    /\ start <= end
    /\ end <= Len(tokens)
    /\ LET r == annotate(tokens, anns, start, end, correct_value, EmptyMeta,
                         "error")
       IN  Followed(r, MaxAnns) /\ Returns(r)
    /\ op' = [name |-> "annotate", policy |-> "error"]
    /\ UNCHANGED <<mode, it, visits, gone, goal, other, staged>>

\* other.annotate with a span of other's token list
BuildThere(start, end, correct_value) ==
    /\ mode = "edit"
    /\ start <= end
    /\ end <= Len(other.tokens)
    /\ LET r == annotate(other.tokens, other.anns, start, end, correct_value,
                         EmptyMeta, "error")
       IN  /\ Followed(r, MaxAnns)
           /\ other' = Buffer(r.tokens, r.anns)
           /\ err' = r.err
    /\ op' = [name |-> "other.annotate", policy |-> "error"]
    /\ UNCHANGED <<tokens, anns, mode, it, visits, gone, goal, staged>>

\* self.combine(other, discard_overlap): other is only read
Combine(discard_overlap) ==
    /\ mode = "edit"
    /\ mode' = "combined"
    /\ Returns(combine(tokens, anns, other, discard_overlap))
    /\ op' = [name |-> "combine", discard_overlap |-> discard_overlap]
    /\ UNCHANGED <<it, visits, gone, goal, other, staged>>

NextCombine ==
    \/ \E start \in Positions, end \in Positions, v \in CombineValues :
          BuildHere(start, end, v)
    \/ \E start \in Positions, end \in Positions, v \in CombineValues :
          BuildThere(start, end, v)
    \/ \E discard_overlap \in BOOLEAN : Combine(discard_overlap)

SpecCombine == InitCombine /\ [][NextCombine]_vars

---------------------------------------------------------------------------
(* align(source, target), then apply_correction on every annotation.       *)

InitAlign ==
    \E source \in ListsUpTo(AlignTokens, MaxAlign),
       target \in ListsUpTo(AlignTokens, MaxAlign) :
        /\ tokens = align(source, target).tokens
        /\ anns = align(source, target).anns
        /\ err = align(source, target).err
        /\ op = [name |-> "align", source |-> source, target |-> target]
        /\ mode = "applyall"
        /\ it = NoIter
        /\ visits = << >>
        /\ gone = << >>
        /\ goal = Join(target)
        /\ other = NoOther
        /\ staged = << >>

NextAlign == \E k \in 1..Len(anns) : ApplyNext(k)

SpecAlign == InitAlign /\ [][NextAlign]_vars

---------------------------------------------------------------------------
(* The properties.  The overlap relation is stated here as the documentation*)
(* words it, not as _get_overlaps computes it.                             *)

\* [b, f) and [s, e) share a token position, or one lies strictly inside the
\* other, or both are the same point
SpansOverlap(b, f, s, e) ==
    \/ Max(b, s) < Min(f, e)
    \/ s < b /\ b <= f /\ f < e
    \/ b < s /\ s <= e /\ e < f
    \/ b = f /\ s = e /\ b = s

OverlapsSome(as, s, e) ==
    \E k \in 1..Len(as) : SpansOverlap(as[k].start, as[k].end, s, e)

Range(list) == {list[k] : k \in 1..Len(list)}

\* the call of this step left the token list and the annotations alone
BufferUnchanged == tokens' = tokens /\ anns' = anns

\* C1: annotate under the default policy (error) on a span that overlaps an
\* existing annotation raises OverlapError and changes nothing; a second
\* insertion at the point of an existing insertion is such a call.
C1_ErrorPolicyRaises ==
    [][(/\ op'.name = "annotate"
        /\ op'.policy = "error"
        /\ op'.start <= op'.end
        /\ OverlapsSome(anns, op'.start, op'.end))
       => (err' = "OverlapError" /\ BufferUnchanged)]_vars

\* the second insertion at a point was refused
C1_Witness ==
    /\ op.name = "annotate"
    /\ op.policy = "error"
    /\ op.start = op.end
    /\ err = "OverlapError"
    /\ \E k \in 1..Len(anns) :
           anns[k].start = op.start /\ anns[k].end = op.start

\* after the annotate call of this step the buffer holds an annotation over
\* the span of the call that carries every suggestion of the call
NewInserted ==
    /\ tokens' = tokens
    /\ \E k \in 1..Len(anns') :
           /\ anns'[k].start = op'.start
           /\ anns'[k].end = op'.end
           /\ Range(Suggestions(op'.value)) \subseteq Range(anns'[k].suggestions)

\* C2 as stated: under each built-in policy annotate either completes with
\* the new (or merged) annotation inserted, or fails and leaves the tokens and
\* the annotations as they were.
C2_InsertsOrFails ==
    [][op'.name = "annotate"
       => \/ err' = "none" /\ NewInserted
          \/ err' # "none" /\ BufferUnchanged]_vars

\* C2 as amended: under each built-in policy annotate either completes with
\* the new (or merged) annotation inserted, or completes under save_old on an
\* overlapping span with the buffer as it was, or fails and leaves the tokens
\* and the annotations as they were.
C2_InsertsDiscardsOrFails ==
    [][op'.name = "annotate"
       => \/ err' = "none" /\ NewInserted
          \/ /\ err' = "none"
             /\ op'.policy = "save_old"
             /\ OverlapsSome(anns, op'.start, op'.end)
             /\ BufferUnchanged
          \/ err' # "none" /\ BufferUnchanged]_vars

\* a strict merge was refused on a buffer that holds an annotation over
\* another span than the call's
C2_Witness ==
    /\ op.name = "annotate"
    /\ op.policy = "merge_strict"
    /\ err = "OverlapError"
    /\ \E k \in 1..Len(anns) :
           /\ SpansOverlap(anns[k].start, anns[k].end, op.start, op.end)
           /\ <<anns[k].start, anns[k].end>> # <<op.start, op.end>>

\* C3: no two annotations of the buffer overlap each other.
C3_NoTwoOverlap ==
    \A i \in 1..Len(anns), j \in 1..Len(anns) :
        i < j => ~SpansOverlap(anns[i].start, anns[i].end,
                               anns[j].start, anns[j].end)

\* C4: apply_correction with the annotation the previous apply_correction
\* consumed raises the not-found error and changes nothing.
C4_SecondApplyFails ==
    [][op'.name = "apply_again"
       => (err' = "ValueError" /\ BufferUnchanged)]_vars

\* C5: apply_correction, at any level, either applies the correction and
\* removes the annotation, or fails with the tokens and the annotations as
\* they were.
C5_AppliesOrFails ==
    [][op'.name = "apply_correction"
       => \/ err' = "none" /\ Len(anns') = Len(anns) - 1
          \/ err' # "none" /\ BufferUnchanged]_vars

\* the tokens with [s, e) replaced by the tokens of a text
Replaced(t, s, e, text) ==
    PySlice(t, 0, s)
        \o (IF text = EmptyStr THEN << >> ELSE Split(text))
        \o PySlice(t, e, Len(t))

\* C6: apply_correction(annotation, level) replaces the span by
\* suggestions[level] when the annotation has a suggestion at that index, and
\* otherwise by its source_text, which leaves the tokens as they were.
C6_ReplacementChosen ==
    [][op'.name = "apply_correction"
       => LET a == op'.ann
              level == op'.level
          IN  /\ err' = "none"
              /\ IF level < Len(a.suggestions)
                 THEN tokens' = Replaced(tokens, a.start, a.end,
                                         a.suggestions[level + 1])
                 ELSE tokens' = tokens]_vars

\* C7: in a pass of iter_annotations whose body keeps, removes or corrects
\* the yielded annotation, the yielded record is in the collection, the body's
\* call succeeds, every annotation up to the generator's index has been
\* yielded once and none after it, every annotation taken out had been yielded
\* once, every annotation left at the end has been yielded once, and each
\* resumption brings the index closer to the count, so the pass ends.
C7_PassState ==
    /\ mode # "aborted"
    /\ \A k \in 1..Len(gone) : gone[k] = 1
    /\ Len(visits) = Len(anns)
    /\ mode = "iter" =>
           /\ IndexOf(anns, it.cur) # 0
           /\ it.i >= 0 /\ it.i < Len(anns)
           /\ \A k \in 1..Len(visits) :
                  visits[k] = IF k <= it.i + 1 THEN 1 ELSE 0
    /\ mode = "iterdone" => \A k \in 1..Len(visits) : visits[k] = 1

C7_IterationVisitsEachOnce ==
    [][/\ mode' \in {"iter", "iterdone", "aborted"} => C7_PassState'
       /\ mode = "iter" =>
              \/ mode' = "iterdone"
              \/ /\ mode' = "iter"
                 /\ it'.n_anns - it'.i < it.n_anns - it.i]_vars

\* a pass ended whose body corrected one annotation, took another out and
\* kept a third
C7_Witness ==
    /\ mode = "iterdone"
    /\ op.name = "iter_apply"
    /\ Len(gone) = 2
    /\ Len(anns) = 1

\* C8: once apply_correction at level 0 has been applied to every annotation,
\* in any order, the token text is what get_corrected_text(0) returned before.
C8_AllAppliedIsCorrected ==
    (mode = "applyall" /\ anns = << >>) => Join(tokens) = goal

\* C9: once every annotation of align(S, T) has been applied, in any order,
\* the text of the buffer is T joined by spaces.
C9_AlignThenApplyGivesTarget ==
    (anns = << >> /\ err = "none") => get_original_text(tokens) = goal

\* C10: align(S, S) has no annotation and its corrected text is S joined by
\* spaces.
C10_AlignSame ==
    (op.name = "align" /\ op.source = op.target)
        => /\ err = "none"
           /\ anns = << >>
           /\ get_corrected_text(tokens, anns, 0) = Join(op.source)

\* align was given the same two-token sequence twice
C10_Witness ==
    /\ op.name = "align"
    /\ op.source = op.target
    /\ Len(op.source) >= 2
    /\ op.source[1] # op.source[2]

\* the annotations of a list that do not overlap [s, e)
NotOverlapping(as, s, e) ==
    SelectSeq(as, LAMBDA a : ~SpansOverlap(a.start, a.end, s, e))

\* the annotation an annotate call makes of its arguments
NewAnnotation(t, call) ==
    TokenAnnotation(call.start, call.end,
                    Join(PySlice(t, call.start, call.end)),
                    Suggestions(call.value), call.meta)

\* C11: annotate under the policy override on a span that overlaps existing
\* annotations removes every overlapping annotation, inserts the new one, and
\* leaves the other annotations and the token list as they were.
C11_OverrideReplaces ==
    [][(/\ op'.name = "annotate"
        /\ op'.policy = "override"
        /\ op'.start <= op'.end
        /\ OverlapsSome(anns, op'.start, op'.end))
       => /\ err' = "none"
          /\ tokens' = tokens
          /\ anns' = NotOverlapping(anns, op'.start, op'.end)
                         \o <<NewAnnotation(tokens, op')>>]_vars

\* an override put its annotation after one that its span does not overlap
C11_Witness ==
    /\ op.name = "annotate"
    /\ op.policy = "override"
    /\ err = "none"
    /\ op.start < op.end
    /\ Len(anns) = 2
    /\ anns[2] = NewAnnotation(tokens, op)
    /\ ~SpansOverlap(anns[1].start, anns[1].end, op.start, op.end)

\* C12: annotate under the policy save_old on a span that overlaps existing
\* annotations raises nothing and leaves the annotations and the token list
\* as they were.
C12_SaveOldDiscards ==
    [][(/\ op'.name = "annotate"
        /\ op'.policy = "save_old"
        /\ op'.start <= op'.end
        /\ OverlapsSome(anns, op'.start, op'.end))
       => (err' = "none" /\ BufferUnchanged)]_vars

\* a save_old call returned and its annotation is not in the buffer, which
\* holds an annotation over a wider span
C12_Witness ==
    /\ op.name = "annotate"
    /\ op.policy = "save_old"
    /\ err = "none"
    /\ \A k \in 1..Len(anns) : anns[k] # NewAnnotation(tokens, op)
    /\ \E k \in 1..Len(anns) :
           /\ SpansOverlap(anns[k].start, anns[k].end, op.start, op.end)
           /\ anns[k].end - anns[k].start > op.end - op.start

\* a list without the later occurrences of its elements
RECURSIVE Deduped(_)
Deduped(list) ==
    IF list = << >> THEN << >>
    ELSE <<Head(list)>>
             \o Deduped(SelectSeq(Tail(list), LAMBDA x : x # Head(list)))

\* the keys of both dicts, with the value of the new dict where it has the key
Overridden(old, new) ==
    [k \in (DOMAIN old) \cup (DOMAIN new) |->
        IF k \in DOMAIN new THEN new[k] ELSE old[k]]

\* the annotations of a list that overlap [s, e)
Overlapping(as, s, e) ==
    SelectSeq(as, LAMBDA a : SpansOverlap(a.start, a.end, s, e))

\* C13: annotate under merge_strict on a span that overlaps existing
\* annotations succeeds only when exactly one annotation overlaps and its
\* span is the new span, and raises OverlapError otherwise, changing nothing;
\* on success that annotation is replaced by one over the same span whose
\* suggestions are the existing ones followed by the new ones without later
\* duplicates and whose metadata is the existing one overridden by the new.
C13_MergeStrict ==
    [][(/\ op'.name = "annotate"
        /\ op'.policy = "merge_strict"
        /\ op'.start <= op'.end
        /\ OverlapsSome(anns, op'.start, op'.end))
       => LET ov == Overlapping(anns, op'.start, op'.end)
          IN  IF /\ Len(ov) = 1
                 /\ ov[1].start = op'.start
                 /\ ov[1].end = op'.end
              THEN /\ err' = "none"
                   /\ tokens' = tokens
                   /\ anns' = NotOverlapping(anns, op'.start, op'.end) \o
                        <<TokenAnnotation(
                            op'.start, op'.end,
                            Join(PySlice(tokens, op'.start, op'.end)),
                            Deduped(ov[1].suggestions
                                        \o Suggestions(op'.value)),
                            Overridden(ov[1].meta, op'.meta))>>
              ELSE err' = "OverlapError" /\ BufferUnchanged]_vars

\* a strict merge gave an annotation that has a suggestion and a key its call
\* did not pass, and the call's value on the key both had
C13_Witness ==
    /\ op.name = "annotate"
    /\ op.policy = "merge_strict"
    /\ err = "none"
    /\ \E k \in 1..Len(anns) :
           /\ anns[k].start = op.start /\ anns[k].end = op.end
           /\ anns[k].suggestions = <<B, A>>
           /\ op.value = ListValue(<<A>>)
           /\ DOMAIN anns[k].meta # DOMAIN op.meta
           /\ anns[k].meta.author = op.meta.author

\* the annotations of a list over exactly [s, e)
OnSpan(as, s, e) == SelectSeq(as, LAMBDA a : a.start = s /\ a.end = e)

\* the list holds one annotation over [s, e), and its suggestions are the
\* elements of both lists, each once
OneMerged(as, s, e, first, second) ==
    /\ Len(OnSpan(as, s, e)) = 1
    /\ LET merged == OnSpan(as, s, e)[1].suggestions
       IN  /\ Range(merged) = Range(first) \cup Range(second)
           /\ Len(merged) = Cardinality(Range(merged))

\* C14: two annotations over one span inserted under merge_strict leave, in
\* either order, exactly one annotation on that span, and its suggestions are
\* as a set the same in both orders: the union of the suggestions of the two.
C14_MergeOrder ==
    mode = "both"
        => /\ err = "none"
           /\ OneMerged(anns, op.start, op.end, op.first.val, op.second.val)
           /\ OneMerged(other.anns, op.start, op.end, op.first.val,
                        op.second.val)
           /\ Range(OnSpan(anns, op.start, op.end)[1].suggestions)
                = Range(OnSpan(other.anns, op.start, op.end)[1].suggestions)

\* the two orders gave the same suggestions in different orders
C14_Witness ==
    /\ mode = "both"
    /\ err = "none"
    /\ anns[1].suggestions = <<A, B>>
    /\ other.anns[1].suggestions = <<B, A>>

\* the texts of a list that are not empty, joined by spaces
JoinTexts(texts) == Join(SelectSeq(texts, LAMBDA x : x # EmptyStr))

\* the suggestions of an annotation, each between the unedited text from lo
\* to the annotation and the unedited text from the annotation to hi
Padded(t, a, lo, hi) ==
    [k \in 1..Len(a.suggestions) |->
        JoinTexts(<<Join(PySlice(t, lo, a.start)), a.suggestions[k],
                    Join(PySlice(t, a.end, hi))>>)]

\* C15: annotate under merge_expand on a span that overlaps exactly one
\* existing annotation replaces it by one annotation over
\* [min(start, existing.start), max(end, existing.end)) whose suggestions are
\* the padded suggestions of both without duplicates; with more than one
\* overlapping annotation it raises OverlapError.
C15_MergeExpand ==
    [][(/\ op'.name = "annotate"
        /\ op'.policy = "merge_expand"
        /\ op'.start <= op'.end
        /\ OverlapsSome(anns, op'.start, op'.end))
       => LET ov == Overlapping(anns, op'.start, op'.end)
              lo == Min(op'.start, ov[1].start)
              hi == Max(op'.end, ov[1].end)
              new == NewAnnotation(tokens, op')
          IN  IF Len(ov) = 1
              THEN /\ err' = "none"
                   /\ tokens' = tokens
                   /\ anns' = NotOverlapping(anns, op'.start, op'.end) \o
                        <<TokenAnnotation(
                            lo, hi, Join(PySlice(tokens, lo, hi)),
                            Deduped(Padded(tokens, ov[1], lo, hi)
                                        \o Padded(tokens, new, lo, hi)),
                            Overridden(ov[1].meta, op'.meta))>>
              ELSE err' = "OverlapError" /\ BufferUnchanged]_vars

\* C16: annotate raises the range error (ValueError) and changes nothing when
\* start > end or when start or end is outside 0..len(tokens).
C16_InvalidSpanRaises ==
    [][(/\ op'.name = "annotate"
        /\ \/ op'.start > op'.end
           \/ op'.start \notin 0..Len(tokens)
           \/ op'.end \notin 0..Len(tokens))
       => (err' = "ValueError" /\ BufferUnchanged)]_vars

\* C17: annotate with an on_overlap value that is no built-in policy raises
\* the argument error (ValueError) on every call and inserts nothing.
C17_UnknownPolicyRaises ==
    [][(op'.name = "annotate" /\ op'.policy \notin Policies)
       => (err' = "ValueError" /\ BufferUnchanged)]_vars

\* an annotation of the list that no other follows in the token list
Rightmost(as) ==
    CHOOSE k \in 1..Len(as) :
        \A j \in 1..Len(as) :
            \/ as[j].start < as[k].start
            \/ as[j].start = as[k].start /\ as[j].end <= as[k].end

\* the tokens in which every annotation that has a suggestion at the level is
\* replaced by it, the annotations taken from the right to the left
RECURSIVE ExpectedCorrected(_, _, _)
ExpectedCorrected(t, as, level) ==
    IF as = << >> THEN t
    ELSE LET k == Rightmost(as)
             a == as[k]
             rest == SubSeq(as, 1, k - 1) \o SubSeq(as, k + 1, Len(as))
         IN  ExpectedCorrected(
                 IF level < Len(a.suggestions)
                 THEN Replaced(t, a.start, a.end, a.suggestions[level + 1])
                 ELSE t,
                 rest, level)

\* C18: get_corrected_text(level) leaves the tokens and the annotations as
\* they were, and returns the text in which every annotation with a suggestion
\* at the level is replaced by it and every other annotation's tokens stay.
C18_CorrectedText ==
    [][op'.name = "get_corrected_text"
       => /\ BufferUnchanged
          /\ goal' = Join(ExpectedCorrected(tokens, anns, op'.level))]_vars

\* C19: combine raises the mismatch error (ValueError) and adds nothing to
\* self when the token sequences of self and other differ, and goes on to
\* the annotations of other only when they are the same.
C19_CombineMismatch ==
    [][op'.name = "combine"
       => IF tokens # other.tokens
          THEN err' = "ValueError" /\ BufferUnchanged
          ELSE err' # "ValueError"]_vars

---------------------------------------------------------------------------
(* TokenAnnotation.to_str and AnnotatedTokens.get_annotated_text.          *)

\* the characters of the keys and values the metadata of the model hold
Chars(s) ==
    CASE s = "author" -> <<"a", "u", "t", "h", "o", "r">>
      [] s = "rule" -> <<"r", "u", "l", "e">>
      [] OTHER -> <<s>>

\* the order in which the dicts of the model hold their keys
KeyOrder == <<"author", "rule">>

\* "".join(":::{}={}".format(k, v) for k, v in self.meta.items())
RECURSIVE FormatItems(_, _)
FormatItems(keys, meta) ==
    IF keys = << >> THEN EmptyStr
    ELSE <<":", ":", ":">> \o Chars(keys[1]) \o <<"=">> \o Chars(meta[keys[1]])
             \o FormatItems(Tail(keys), meta)

_format_meta(meta) ==
    FormatItems(SelectSeq(KeyOrder, LAMBDA k : k \in DOMAIN meta), meta)

\* "|".join(list)
RECURSIVE JoinBar(_)
JoinBar(list) ==
    IF list = << >> THEN EmptyStr
    ELSE IF Len(list) = 1 THEN list[1]
    ELSE list[1] \o <<"|">> \o JoinBar(Tail(list))

to_str(ann, with_meta) ==
    LET repl == IF ann.suggestions # << >> THEN JoinBar(ann.suggestions)
                ELSE NO_SUGGESTIONS
        meta_text == IF with_meta THEN _format_meta(ann.meta) ELSE EmptyStr
    IN  <<"{">> \o ann.source_text \o <<"=", ">">> \o repl \o meta_text
            \o <<"}">>

\* the edits get_annotated_text stages, one per annotation
MarkerEdits(as, with_meta) ==
    [k \in 1..Len(as) |->
        Edit(as[k].start, as[k].end, to_str(as[k], with_meta))]

get_annotated_text(t, as, with_meta) ==
    Join(get_edited_tokens(t, MarkerEdits(as, with_meta), TRUE))

---------------------------------------------------------------------------
(* A caller that builds a buffer over a longer text, applies corrections   *)
(* to it and renders it.                                                   *)

LongTokens ==
    {l \in ListsUpTo(Tokens, MaxGrow) : l = << >> \/ l[1] = A}

InitLong ==
    /\ tokens \in LongTokens
    /\ anns = << >>
    /\ err = "none"
    /\ op = [name |-> "init"]
    /\ mode = "edit"
    /\ it = NoIter
    /\ visits = << >>
    /\ gone = << >>
    /\ goal = EmptyStr
    /\ other = NoOther
    /\ staged = << >>

\* get_annotated_text works on a MutableTokens over self._tokens
AnnotatedText(with_meta) ==
    /\ mode \in {"edit", "corrected"}
    /\ mode' = "read"
    /\ goal' = get_annotated_text(tokens, anns, with_meta)
    /\ err' = "none"
    /\ op' = [name |-> "get_annotated_text", with_meta |-> with_meta]
    /\ UNCHANGED <<tokens, anns, it, visits, gone, other, staged>>

NextRender ==
    \/ \E start \in Positions, end \in Positions, v \in PassValues :
          Build(start, end, v)
    \/ \E k \in 1..Len(anns) : Correct(k)
    \/ \E with_meta \in BOOLEAN : AnnotatedText(with_meta)

SpecRender == InitLong /\ [][NextRender]_vars

\* the text with each marker "{source=>...}" replaced by its source
RECURSIVE StripMarkers(_)
StripMarkers(text) ==
    IF text = EmptyStr THEN EmptyStr
    ELSE LET arrows == {k \in 2..(Len(text) - 1) :
                            text[k] = "=" /\ text[k + 1] = ">"}
             arrow == CHOOSE k \in arrows : \A j \in arrows : k <= j
             closes == {k \in (arrow + 2)..Len(text) : text[k] = "}"}
             close == CHOOSE k \in closes : \A j \in closes : k <= j
         IN  IF text[1] = "{" /\ arrows # {} /\ closes # {}
             THEN SubSeq(text, 2, arrow - 1)
                      \o StripMarkers(SubSeq(text, close + 1, Len(text)))
             ELSE <<text[1]>> \o StripMarkers(Tail(text))

\* the words of a text: its pieces between spaces, the empty ones left out
Words(text) == SelectSeq(Split(text), LAMBDA w : w # EmptyStr)

\* C21: the text get_annotated_text returns, with every annotation marker
\* replaced by the source text it carries, reads word for word as the
\* original text, and the call leaves tokens and annotations as they were
C21_AnnotatedRoundTrip ==
    [][op'.name = "get_annotated_text"
          => /\ Words(StripMarkers(goal')) = Words(get_original_text(tokens))
             /\ BufferUnchanged]_vars

---------------------------------------------------------------------------
(* The overlap test of annotate.                                           *)

\* [b, f) and [s, e) share a token position
SharePosition(b, f, s, e) ==
    \E p \in (-MaxPos - 1)..(MaxPos + 1) : b <= p /\ p < f /\ s <= p /\ p < e

\* [s, e) lies strictly inside [b, f)
LiesInside(s, e, b, f) == b < s /\ s <= e /\ e < f

\* the spans the claim calls overlapping
StatedOverlap(b, f, s, e) ==
    \/ SharePosition(b, f, s, e)
    \/ LiesInside(s, e, b, f)
    \/ LiesInside(b, f, s, e)
    \/ b = f /\ s = e /\ b = s

\* C22: the overlap test of annotate takes [s, e) to overlap an annotation
\* over [b, f) exactly when the two share a token position, one lies strictly
\* inside the other, or both are zero-length at one point; so a call under
\* the error policy raises OverlapError exactly in these cases, and a span
\* that only touches the existing ones is inserted
C22_OverlapTest ==
    [][(/\ op'.name = "annotate"
        /\ op'.policy = "error"
        /\ op'.start <= op'.end)
       => /\ \A k \in 1..Len(anns), s \in Positions, e \in Positions :
                 s <= e =>
                    (OverlapsSpan(anns[k], s, e)
                        <=> StatedOverlap(anns[k].start, anns[k].end, s, e))
          /\ (err' = "OverlapError")
                 <=> (\E k \in 1..Len(anns) :
                         StatedOverlap(anns[k].start, anns[k].end,
                                       op'.start, op'.end))
          /\ err' = "none"
                 => /\ Len(anns') = Len(anns) + 1
                    /\ anns'[Len(anns')].start = op'.start
                    /\ anns'[Len(anns')].end = op'.end
                    /\ SubSeq(anns', 1, Len(anns)) = anns]_vars

\* a span was inserted next to the span it touches
C22_Witness ==
    /\ op.name = "annotate"
    /\ op.policy = "error"
    /\ err = "none"
    /\ Len(anns) = 2
    /\ anns[2].start = op.start /\ anns[2].end = op.end
    /\ anns[1].start < anns[1].end
    /\ anns[1].end = anns[2].start
    /\ anns[2].start < anns[2].end

---------------------------------------------------------------------------
(* The remapping of apply_correction.                                      *)

\* the number of space-separated tokens of a text, none for the empty text
CountTokens(text) ==
    IF text = EmptyStr THEN 0
    ELSE 1 + Cardinality({k \in 1..Len(text) : text[k] = SP})

\* the text apply_correction puts in place of annotation X at a level
Replacement(X, level) ==
    IF X.suggestions # << >> THEN X.suggestions[level + 1] ELSE X.source_text

\* the annotations other than the first one equal to X, in order
Others(as, X) ==
    LET first == CHOOSE k \in 1..Len(as) :
                     as[k] = X /\ \A h \in 1..(k - 1) : as[h] # X
    IN  [j \in 1..(Len(as) - 1) |-> IF j < first THEN as[j] ELSE as[j + 1]]

\* C23: after apply_correction on X every other annotation that started at
\* or after X.start has start and end moved by the token count of the
\* replacement minus the token count of X.source_text, every annotation that
\* started before X.start is as it was, and no annotation's source_text,
\* suggestions or meta changes
C23_RemapShifts ==
    [][(op'.name = "apply_correction" /\ err' = "none")
       => LET X == op'.ann
              delta == CountTokens(Replacement(X, op'.level))
                           - CountTokens(X.source_text)
              rest == Others(anns, X)
          IN  /\ Len(anns') = Len(rest)
              /\ \A j \in 1..Len(rest) :
                    /\ anns'[j].source_text = rest[j].source_text
                    /\ anns'[j].suggestions = rest[j].suggestions
                    /\ anns'[j].meta = rest[j].meta
                    /\ IF rest[j].start >= X.start
                       THEN /\ anns'[j].start = rest[j].start + delta
                            /\ anns'[j].end = rest[j].end + delta
                       ELSE /\ anns'[j].start = rest[j].start
                            /\ anns'[j].end = rest[j].end]_vars

\* a correction that changed the token count was applied between an
\* annotation before it and one after it
C23_Witness ==
    /\ op.name = "apply_correction"
    /\ err = "none"
    /\ LET delta == CountTokens(Replacement(op.ann, op.level))
                        - CountTokens(op.ann.source_text)
       IN  /\ delta # 0
           /\ \E j \in 1..Len(anns), k \in 1..Len(anns) :
                  /\ anns[j].start < op.ann.start
                  /\ anns[k].start - delta >= op.ann.end
                  /\ anns[k].start < anns[k].end

---------------------------------------------------------------------------
(* The annotations align makes.                                            *)

\* the runs of the diff of two sequences that are not "equal", in order
DiffRuns(source, target) ==
    SelectSeq(get_opcodes(source, target), LAMBDA d : d[1] # "equal")

\* C24: for every S and T the annotations of align(S, T) are pairwise
\* non-overlapping and stand in increasing position order, align raises no
\* error, and every non-equal run of the diff has become exactly one
\* annotation: the k-th annotation spans the k-th run of S and suggests the
\* tokens of T the run stands for
C24_AlignAnnotations ==
    op.name = "align"
        => LET runs == DiffRuns(op.source, op.target)
           IN  /\ err = "none"
               /\ tokens = op.source
               /\ Len(anns) = Len(runs)
               /\ \A k \in 1..Len(anns) :
                     /\ anns[k].start = runs[k][2]
                     /\ anns[k].end = runs[k][3]
                     /\ anns[k].suggestions
                            = <<Join(PySlice(op.target, runs[k][4],
                                             runs[k][5]))>>
               /\ \A j \in 1..Len(anns), k \in 1..Len(anns) :
                     j < k =>
                        /\ ~StatedOverlap(anns[j].start, anns[j].end,
                                          anns[k].start, anns[k].end)
                        /\ anns[j].end <= anns[k].start
                        /\ anns[j].start < anns[k].start

\* align made two annotations, the second at a point or span after the first
C24_Witness ==
    /\ op.name = "align"
    /\ err = "none"
    /\ Len(anns) = 2
    /\ anns[1].start < anns[1].end
    /\ anns[1].end < anns[2].start

---------------------------------------------------------------------------
(* A MutableTokens over a token list: replace stages edits,                *)
(* get_edited_tokens reads them, apply_edits takes them into the tokens.   *)

EditValues ==
    {EmptyStr, A, Join(<<B, A>>), NO_SUGGESTIONS, Join(<<B, NO_SUGGESTIONS>>)}

InitEdits ==
    /\ tokens \in InitialTokens
    /\ anns = << >>
    /\ err = "none"
    /\ op = [name |-> "init"]
    /\ mode = "edit"
    /\ it = NoIter
    /\ visits = << >>
    /\ gone = << >>
    /\ goal = << >>
    /\ other = NoOther
    /\ staged = << >>

\* self._edits.append((start, end, value))
replace(_edits, start, end, value) == Append(_edits, Edit(start, end, value))

Replace(start, end, value) ==
    /\ mode = "edit"
    /\ Len(staged) < MaxEdits
    /\ staged' = replace(staged, start, end, value)
    /\ err' = "none"
    /\ op' = [name |-> "replace"]
    /\ UNCHANGED <<tokens, anns, mode, it, visits, gone, goal, other>>

\* the result is built in a new list; goal holds the tokens returned
GetEditedTokens(highlight) ==
    /\ mode = "edit"
    /\ mode' = "read"
    /\ goal' = get_edited_tokens(tokens, staged, highlight)
    /\ err' = "none"
    /\ op' = [name |-> "get_edited_tokens", highlight |-> highlight]
    /\ UNCHANGED <<tokens, anns, it, visits, gone, other, staged>>

ApplyEdits ==
    /\ mode = "edit"
    /\ staged # << >>
    /\ Len(get_edited_tokens(tokens, staged, FALSE)) <= MaxGrow
    /\ tokens' = get_edited_tokens(tokens, staged, FALSE)
    /\ staged' = << >>
    /\ err' = "none"
    /\ op' = [name |-> "apply_edits"]
    /\ UNCHANGED <<anns, mode, it, visits, gone, goal, other>>

NextEdits ==
    \/ \E start \in Positions, end \in Positions, value \in EditValues :
          Replace(start, end, value)
    \/ \E highlight \in BOOLEAN : GetEditedTokens(highlight)
    \/ ApplyEdits

SpecEdits == InitEdits /\ [][NextEdits]_vars

\* every edit spans tokens of the list
InBounds(t, es) ==
    \A k \in 1..Len(es) :
        0 <= es[k].start /\ es[k].start <= es[k].end /\ es[k].end <= Len(t)

\* no two edits share a token position
DisjointSpans(es) ==
    \A j \in 1..Len(es), k \in 1..Len(es) :
        j # k => ~SharePosition(es[j].start, es[j].end,
                                es[k].start, es[k].end)

\* no two edits overlap as the overlap test of annotate has it: besides
\* sharing no position, no two are zero-length at one point and no
\* zero-length one lies strictly inside another
SeparateSpans(es) ==
    \A j \in 1..Len(es), k \in 1..Len(es) :
        j # k => ~StatedOverlap(es[j].start, es[j].end,
                                es[k].start, es[k].end)

\* every replacement is the placeholder itself or free of it
PlainValues(es) ==
    \A k \in 1..Len(es) :
        es[k].val = NO_SUGGESTIONS \/ ~Contains(es[k].val, NO_SUGGESTIONS)

\* the tokens put for one edit
PutFor(t, e, highlight) ==
    IF ~highlight /\ e.val = NO_SUGGESTIONS
    THEN [k \in 1..(e.end - e.start) |-> t[e.start + k]]
    ELSE IF e.val = EmptyStr THEN << >>
    ELSE Split(e.val)

\* what the zero-length edits at p insert, in the order staged
RECURSIVE InsertedAt(_, _, _, _)
InsertedAt(t, es, p, highlight) ==
    IF es = << >> THEN << >>
    ELSE (IF es[1].start = p /\ es[1].end = p
          THEN PutFor(t, es[1], highlight) ELSE << >>)
             \o InsertedAt(t, Tail(es), p, highlight)

\* the tokens from position p on with every edited span replaced: at p first
\* what is inserted there, then what stands for the span that starts there
\* or the token itself
RECURSIVE Rendered(_, _, _, _)
Rendered(t, es, p, highlight) ==
    LET starting == {k \in 1..Len(es) : es[k].start = p /\ es[k].end > p}
        e == es[CHOOSE k \in starting : TRUE]
    IN  IF p > Len(t) THEN << >>
        ELSE InsertedAt(t, es, p, highlight)
                \o (IF starting # {}
                    THEN PutFor(t, e, highlight)
                            \o Rendered(t, es, e.end, highlight)
                    ELSE IF p < Len(t)
                         THEN <<t[p + 1]>> \o Rendered(t, es, p + 1, highlight)
                         ELSE << >>)

\* the edits staged in every order
Orders(es) ==
    {[k \in 1..Len(es) |-> es[f[k]]] :
        f \in {g \in [1..Len(es) -> 1..Len(es)] :
                  \A i \in 1..Len(es), j \in 1..Len(es) :
                      g[i] = g[j] => i = j}}

\* what C25 says of one get_edited_tokens call
EditedAsStated ==
    /\ goal' = Rendered(tokens, staged, 0, op'.highlight)
    /\ \A es \in Orders(staged) :
           get_edited_tokens(tokens, es, op'.highlight) = goal'
    /\ tokens' = tokens
    /\ staged' = staged

C26_PlaceholderOnly ==
    [][(/\ op'.name = "get_edited_tokens"
        /\ InBounds(tokens, staged)
        /\ SeparateSpans(staged))
       => goal' = Rendered(tokens, staged, 0, op'.highlight)]_vars

---------------------------------------------------------------------------
(* AnnotatedTokens.filter_annotations: f is given by the number of its     *)
(* parameters (0 for f=None) and by what it returns for each annotation.   *)

\* "for ann in self.iter_annotations(): ... if not result: self.remove(ann)";
\* calls lists the annotations f was called with
RECURSIVE FilterLoop(_, _, _, _, _)
FilterLoop(t, as, frame, f, calls) ==
    IF frame.done THEN [tokens |-> t, anns |-> as, err |-> "none",
                        calls |-> calls]
    ELSE LET result == f.returns[frame.cur]
             r == IF ~result THEN remove(t, as, frame.cur)
                  ELSE Res(t, as, "none")
         IN  IF r.err # "none"
             THEN [tokens |-> r.tokens, anns |-> r.anns, err |-> r.err,
                   calls |-> Append(calls, frame.cur)]
             ELSE FilterLoop(r.tokens, r.anns, IterResume(frame, r.anns), f,
                             Append(calls, frame.cur))

filter_annotations(t, as, f) ==
    IF f.params \notin {1, 2}
    THEN [tokens |-> t, anns |-> as, err |-> "ValueError", calls |-> << >>]
    ELSE FilterLoop(t, as, IterBegin(as), f, << >>)

\* the filter functions passed: None, and functions of one to three
\* parameters that return a truth value for each annotation of the buffer
FilterFunctions(as) ==
    {[params |-> n, returns |-> g] :
        n \in 0..3, g \in [{as[k] : k \in 1..Len(as)} -> BOOLEAN]}

Filter(f) ==
    /\ mode \in {"edit", "corrected"}
    /\ mode' = "filtered"
    /\ Returns(filter_annotations(tokens, anns, f))
    /\ op' = [name |-> "filter_annotations", f |-> f,
              calls |-> filter_annotations(tokens, anns, f).calls]
    /\ UNCHANGED <<it, visits, gone, goal, other, staged>>

NextFilter ==
    \/ \E start \in Positions, end \in Positions, v \in Values :
          Build(start, end, v)
    \/ \E k \in 1..Len(anns) : Correct(k)
    \/ \E f \in FilterFunctions(anns) : Filter(f)

SpecFilter == Init /\ [][NextFilter]_vars

\* C27: after filter_annotations(f), f a function of one or two parameters,
\* the buffer holds exactly the annotations for which f returned true, in
\* their former order and as they were, the tokens are unchanged, and f was
\* called exactly once for each annotation the buffer held
C27_FilterKeeps ==
    [][(op'.name = "filter_annotations" /\ op'.f.params \in {1, 2})
       => /\ err' = "none"
          /\ anns' = SelectSeq(anns, LAMBDA a : op'.f.returns[a])
          /\ tokens' = tokens
          /\ op'.calls = anns]_vars

\* the filter was called for three annotations and removed the second only
C27_Witness ==
    /\ op.name = "filter_annotations"
    /\ err = "none"
    /\ Len(op.calls) = 3
    /\ anns = <<op.calls[1], op.calls[3]>>
    /\ ~op.f.returns[op.calls[2]]

\* C28: combine(other, discard_overlap=False) on buffers of the same text
\* either appends every annotation of other to self, or raises OverlapError
\* and leaves the annotations of self exactly as they were
C28_CombineAllOrNothing ==
    [][(/\ op'.name = "combine"
        /\ ~op'.discard_overlap
        /\ get_original_text(tokens) = get_original_text(other.tokens))
       => \/ /\ err' = "none"
             /\ tokens' = tokens
             /\ Len(anns') = Len(anns) + Len(other.anns)
             /\ SubSeq(anns', 1, Len(anns)) = anns
             /\ \A k \in 1..Len(other.anns) :
                   /\ anns'[Len(anns) + k].start = other.anns[k].start
                   /\ anns'[Len(anns) + k].end = other.anns[k].end
                   /\ anns'[Len(anns) + k].suggestions
                          = other.anns[k].suggestions
          \/ /\ err' = "OverlapError"
             /\ BufferUnchanged]_vars

\* C29: after any sequence of in-bounds annotate calls, removals and
\* apply_correction calls at a valid level, every annotation of the buffer
\* has 0 <= start <= end <= the number of tokens
C29_SpansInBounds ==
    \A k \in 1..Len(anns) :
        /\ 0 <= anns[k].start
        /\ anns[k].start <= anns[k].end
        /\ anns[k].end <= Len(tokens)

\* C30: after any sequence of in-bounds annotate calls, removals and
\* apply_correction calls at a valid level, the source_text of every
\* annotation is the space-joined text of the tokens its span covers now
C30_SourceTextCurrent ==
    \A k \in 1..Len(anns) :
        anns[k].source_text
            = Join(PySlice(tokens, anns[k].start, anns[k].end))

=============================================================================
